---- MODULE Spec2Model ----
(***************************************************************************)
(* Request orchestration layer of the OpenDota MCP server                  *)
(* (src/src/opendota_server/server.py): the sliding-window rate limiter    *)
(* apply_rate_limit, the TTL cache api_cache, the dispatcher               *)
(* make_opendota_request, the janitor cleanup_cache /                      *)
(* start_cache_cleanup_task and the process lifecycle of __main__.         *)
(*                                                                         *)
(* Time is a discrete clock `now` (what time.time() returns).  Code that   *)
(* runs between two awaits is one action: asyncio switches tasks only at   *)
(* an await, and the clock is read as one value inside such a stretch.     *)
(* A task that sleeps d is resumed at some time >= the time it asked for.  *)
(***************************************************************************)
EXTENDS Integers, Sequences, FiniteSets, TLC

\* ---------------------------------------------------------------- bounds
\* The program's durations and quota, scaled down to a few clock ticks
\* (server.py: quota 60, window 60 s, buffer 0.1 s, CACHE_TTL 300 s).
MAX_REQUESTS_PER_MINUTE == 2
WINDOW == 3
BUFFER == 1
CACHE_TTL == 3
\* The clock stops advancing at MaxTime; at most MaxCalls dispatcher calls
\* are begun in one behaviour.
MaxTime == 4
MaxCalls == 4
\* The calls begun in one behaviour of the single-loop specification.
MaxLoopCalls == 3

\* The concurrent callers of the serving phase (one per query operation in
\* flight); task 0 is the startup() coroutine.
Procs == {1, 2}
Tasks == {0} \cup Procs

\* ------------------------------------------------------- requests, keys
\* API_PARAMS with OPENDOTA_API_KEY unset.
API_PARAMS == << >>

\* Python's order on the parameter names that occur.
NameOrder == <<"api_key", "limit", "offset">>

HealthRequest == [endpoint |-> "health", params |-> << >>]

\* The (endpoint, params) pairs the query operations pass; params is a dict
\* in insertion order.
Requests ==
  { [endpoint |-> "heroes", params |-> << >>],
    [endpoint |-> "players/1/matches",
     params |-> << <<"limit", "5">>, <<"offset", "0">> >>],
    [endpoint |-> "players/1/matches",
     params |-> << <<"offset", "0">>, <<"limit", "5">> >>] }

HasName(d, n) == \E i \in 1..Len(d) : d[i][1] = n

\* dict.update: an existing name keeps its position and takes the new
\* value, a new name is appended.
RECURSIVE DictUpdate(_, _)
DictUpdate(d, extra) ==
  IF extra = << >> THEN d
  ELSE LET kv == Head(extra)
           d1 == IF HasName(d, kv[1])
                 THEN [i \in 1..Len(d) |-> IF d[i][1] = kv[1] THEN kv ELSE d[i]]
                 ELSE Append(d, kv)
       IN DictUpdate(d1, Tail(extra))

\* sorted(d.items()): names are unique, so the order is the order of names.
RECURSIVE SortedFrom(_, _)
SortedFrom(d, i) ==
  IF i > Len(NameOrder) THEN << >>
  ELSE SelectSeq(d, LAMBDA kv : kv[1] = NameOrder[i]) \o SortedFrom(d, i + 1)

\* Variant of SortedItems: the items in the order of insertion.
SortedItems_Unsorted(d) == d

SortedItems(d) == SortedFrom(d, 1)

\* "&".join(f"{k}={v}" for k, v in items)
RECURSIVE JoinItems(_)
JoinItems(items) ==
  IF items = << >> THEN ""
  ELSE LET kv == Head(items)
           one == kv[1] \o "=" \o kv[2]
       IN IF Len(items) = 1 THEN one ELSE one \o "&" \o JoinItems(Tail(items))

\* get_cache_key, lines 121-126.
get_cache_key(endpoint, params) ==
  IF params # << >>
  THEN endpoint \o "?" \o JoinItems(SortedItems(params))
  ELSE endpoint

\* make_opendota_request, lines 142-150: the key built from the merged
\* parameters; `defaults` is the value of API_PARAMS.
RequestParams(r) == DictUpdate(API_PARAMS, r.params)

MergedKey(defaults, r) ==
  LET request_params == DictUpdate(defaults, r.params)
  IN IF request_params # << >>
     THEN r.endpoint \o "?" \o JoinItems(SortedItems(request_params))
     ELSE r.endpoint

CacheKey(r) == MergedKey(API_PARAMS, r)

\* ------------------------------------------------------------- network
Payloads == {"wins10", "wins11"}
Unparseable == "<html>"
ErrStatuses == {400, 404, 429, 500, 503}

\* The exceptions of the transport (httpx.TransportError: no connection, a
\* timeout), and a programming error raised inside the try block.
TransportExcs == {"ConnectError", "ReadTimeout"}
InternalFault == "TypeError"

\* What the try block's request (lines 164-171) can end in: an exception,
\* or a response with a status and a body.
NetOutcomes ==
  { [exc |-> "none", status |-> 200, body |-> b] : b \in Payloads \cup {Unparseable} }
  \cup { [exc |-> "none", status |-> s, body |-> "text"] : s \in ErrStatuses }
  \cup { [exc |-> e, status |-> 0, body |-> ""] : e \in TransportExcs \cup {InternalFault} }

\* response.raise_for_status() returns normally for a 2xx status only.
IsSuccess(o) == o.exc = "none" /\ o.status >= 200 /\ o.status < 300
\* A 2xx body that is JSON and has the key "error".
ErrorBody == "{error}"
\* response.json() parses the body.
IsJson(o) == o.body \in Payloads \cup {ErrorBody}

\* ------------------------------------------------------- rate limiter
\* Variant of Prune: the filter of line 101 left out.
Prune_None(ts, t) == ts

\* apply_rate_limit, line 101: [t for t in request_timestamps if current_time - t < 60]
Prune(ts, t) == SelectSeq(ts, LAMBDA x : t - x < WINDOW)

\* Variant of AtLimit: the comparison off by one.
AtLimit_Strict(ts) == Len(ts) > MAX_REQUESTS_PER_MINUTE

\* line 104
AtLimit(ts) == Len(ts) >= MAX_REQUESTS_PER_MINUTE

\* min(request_timestamps), line 106 (of a non-empty list)
SeqMin(ts) == CHOOSE m \in {ts[i] : i \in 1..Len(ts)} : \A j \in 1..Len(ts) : m <= ts[j]

\* Variant of TimeToWait: the buffer left out.
TimeToWait_NoBuffer(ts, t) == WINDOW - (t - SeqMin(ts))

\* Variant of TimeToWait: the age of the oldest timestamp added instead of
\* subtracted.
TimeToWait_SignSlip(ts, t) == WINDOW + (t - SeqMin(ts)) + BUFFER

\* lines 107-109: 60 - (current_time - oldest_timestamp) + 0.1
TimeToWait(ts, t) == WINDOW - (t - SeqMin(ts)) + BUFFER

\* ---------------------------------------------------------------- cache
\* api_cache is a dict: a function whose domain is the set of keys present.
\* An entry is the tuple (timestamp, data); NoEntry is the None of dict.get.
NoEntry == [timestamp |-> -1, data |-> "None"]
Entry(t, d) == [timestamp |-> t, data |-> d]

\* api_cache.get(cache_key), line 153
CacheGet(cache, key) == IF key \in DOMAIN cache THEN cache[key] ELSE NoEntry

\* Variant of Fresh: an entry of age CACHE_TTL still served.
Fresh_Inclusive(e, t) == t - e.timestamp <= CACHE_TTL

\* line 156: time.time() - timestamp < CACHE_TTL
Fresh(e, t) == t - e.timestamp < CACHE_TTL

\* lines 154-158: the lookup serves the entry
IsHit(e, t) == e # NoEntry /\ Fresh(e, t)

\* Variant of CachePut: the entry is built in place, its timestamp written
\* and the task suspended before the payload is.
CachePut_TimestampFirst(cache, key, t, d) ==
  [k \in DOMAIN cache \cup {key} |->
     IF k = key THEN Entry(t, "None") ELSE cache[k]]

\* Variant of CachePut: an entry already present is kept (dict.setdefault).
CachePut_KeepExisting(cache, key, t, d) ==
  [k \in DOMAIN cache \cup {key} |->
     IF k = key /\ k \notin DOMAIN cache THEN Entry(t, d)
     ELSE IF k = key THEN cache[key] ELSE cache[k]]

\* line 174: api_cache[cache_key] = (time.time(), data)
CachePut(cache, key, t, d) ==
  [k \in DOMAIN cache \cup {key} |-> IF k = key THEN Entry(t, d) ELSE cache[k]]

\* Variant of StoreResponse: the body stored before the status is checked.
StoreResponse_Any(cache, key, t, o) ==
  IF o.exc = "none" THEN CachePut(cache, key, t, o.body) ELSE cache

\* lines 170-176 against 177-195: only a response that passed
\* raise_for_status() and json() reaches the store.
StoreResponse(cache, key, t, o) ==
  IF IsSuccess(o) /\ IsJson(o) THEN CachePut(cache, key, t, o.body) ELSE cache

\* Variant of Expired: an entry of age CACHE_TTL kept.
Expired_Strict(e, t) == t - e.timestamp > CACHE_TTL

\* cleanup_cache, line 1247
Expired(e, t) == t - e.timestamp >= CACHE_TTL

\* lines 1244-1248
ExpiredKeys(cache, t) == {k \in DOMAIN cache : Expired(cache[k], t)}

\* lines 1250-1251
Sweep(cache, t) == [k \in DOMAIN cache \ ExpiredKeys(cache, t) |-> cache[k]]

\* ------------------------------------------------------ classification
\* What make_opendota_request returns: the payload, or {"error": message}.
\* status is the status code the message text carries (0: none).  raised
\* names the exception when the call ends by raising instead of returning.
DataResult(d) == [error |-> "", status |-> 0, data |-> d, raised |-> "none"]
ErrorResult(msg, s) == [error |-> msg, status |-> s, data |-> "", raised |-> "none"]
Raised(e) == [error |-> "", status |-> 0, data |-> "", raised |-> e]

\* Variant of ClassifyStatus: status 500 not counted as a server error.
ClassifyStatus_Strict500(s) ==
  IF s = 429 THEN ErrorResult("Rate limit exceeded", 0)
  ELSE IF s = 404 THEN ErrorResult("Not found", 0)
  ELSE IF s > 500 THEN ErrorResult("OpenDota API server error", 0)
  ELSE ErrorResult("HTTP error", s)

\* lines 177-192: except httpx.HTTPStatusError
ClassifyStatus(s) ==
  IF s = 429 THEN ErrorResult("Rate limit exceeded", 0)
  ELSE IF s = 404 THEN ErrorResult("Not found", 0)
  ELSE IF s >= 500 THEN ErrorResult("OpenDota API server error", 0)
  ELSE ErrorResult("HTTP error", s)

\* Variant of Handle: the handler of lines 193-195 left out, so that only
\* httpx.HTTPStatusError is caught.
Handle_NoCatchAll(o) ==
  IF o.exc # "none" THEN Raised(o.exc)
  ELSE IF ~IsSuccess(o) THEN ClassifyStatus(o.status)
  ELSE IF ~IsJson(o) THEN Raised("JSONDecodeError")
  ELSE DataResult(o.body)

\* lines 163-195: the try block and its two handlers
Handle(o) ==
  IF o.exc # "none" THEN ErrorResult("Unexpected error", 0)
  ELSE IF ~IsSuccess(o) THEN ClassifyStatus(o.status)
  ELSE IF ~IsJson(o) THEN ErrorResult("Unexpected error", 0)
  ELSE DataResult(o.body)

\* ---------------------------------------------------------------- state
VARIABLES
  now,                 \* time.time()
  request_timestamps,  \* the limiter log (line 48)
  api_cache,           \* the cache (line 130)
  pc,                  \* where each task stands: idle, or suspended at an await
  req,                 \* the locals of each task's call in progress
  last,                \* what the step leading to this state did, if a task's
  calls,               \* the arrivals of the calls begun so far, summarised
  phase,               \* "startup": asyncio.run(startup()); "serving": mcp.run
  janitor,             \* the start_cache_cleanup_task task
  lastSweep            \* what cleanup_cache logged, if this state follows a sweep

vars == <<now, request_timestamps, api_cache, pc, req, last, calls, phase,
          janitor, lastSweep>>

NoResp == [exc |-> "unsent", status |-> 0, body |-> ""]

\* The locals of a call, with what it has done so far: steps lists the
\* dispatcher's steps in the order performed, stamps counts the timestamps
\* it appended, slept tells whether the limiter suspended it.
IdleReq ==
  [cache_key |-> "", wake |-> 0, slept |-> FALSE, stamps |-> 0, steps |-> << >>]

\* One step of a task, as observed: whether it began a call and the wait
\* the limiter computed, whether it looked the cache up, and what it
\* returned to the caller (resp: the outcome of the network call, NoResp
\* when none was made; prior: the entry that a store of line 174 replaced;
\* request: the arguments of the call begun).
NoLast ==
  [task |-> -1, call |-> IdleReq, began |-> FALSE, delay |-> 0,
   looked |-> FALSE, returned |-> FALSE, resp |-> NoResp,
   result |-> DataResult(""), prior |-> NoEntry, request |-> HealthRequest]

\* n calls were begun, the first at `first` and the latest at `latest`;
\* spaced: every two consecutive arrivals were more than
\* WINDOW / MAX_REQUESTS_PER_MINUTE apart; delayed: some call was suspended.
NoCalls == [n |-> 0, first |-> 0, latest |-> 0, spaced |-> TRUE, delayed |-> FALSE]

Arrive(c, t, wait) ==
  [n |-> c.n + 1,
   first |-> IF c.n = 0 THEN t ELSE c.first,
   latest |-> t,
   spaced |-> c.spaced /\ (c.n = 0 \/ (t - c.latest) * MAX_REQUESTS_PER_MINUTE > WINDOW),
   delayed |-> c.delayed \/ wait > 0]

NoSweep == [at |-> -1, removed |-> 0, remaining |-> 0]

\* __main__ (lines 1286-1288) has entered startup(): the cleanup task is
\* created (line 1269) and not yet run, nothing is cached or recorded.
Init ==
  /\ now = 0
  /\ request_timestamps = << >>
  /\ api_cache = << >>
  /\ pc = [p \in Tasks |-> "idle"]
  /\ req = [p \in Tasks |-> IdleReq]
  /\ last = NoLast
  /\ calls = NoCalls
  /\ phase = "startup"
  /\ janitor = [state |-> "created", wake |-> 0]
  /\ lastSweep = NoSweep

\* ------------------------------------------------------------- actions
\* The call of task p returns `res`.  When startup() gets its result it
\* returns without another await (lines 1275-1283), asyncio.run (line 1288)
\* cancels the tasks still pending on its loop and closes it, and mcp.run
\* (line 1293) serves the query operations on a loop of its own.
Return(p, rq, ev, resp, res) ==
  /\ pc' = [pc EXCEPT ![p] = "idle"]
  /\ req' = [req EXCEPT ![p] = IdleReq]
  /\ last' = [ev EXCEPT !.task = p, !.call = rq, !.returned = TRUE,
                        !.resp = resp, !.result = res]
  /\ phase' = IF p = 0 THEN "serving" ELSE phase
  /\ janitor' = IF p = 0 THEN [state |-> "cancelled", wake |-> 0] ELSE janitor

\* Task p suspends at an await.  The cleanup task created by line 1269 runs
\* for the first time at the first await of its loop and goes to sleep
\* (line 1261).
Await(p, at, rq, ev) ==
  /\ pc' = [pc EXCEPT ![p] = at]
  /\ req' = [req EXCEPT ![p] = rq]
  /\ last' = [ev EXCEPT !.task = p, !.call = rq]
  /\ phase' = phase
  /\ janitor' = IF janitor.state = "created"
                THEN [state |-> "sleeping", wake |-> now + CACHE_TTL]
                ELSE janitor

\* Variant of Lookup: single-flight.  A call that misses while another task
\* is fetching the same key sends no request of its own and shares that
\* task's request.
Lookup_SingleFlight(p, rq, ev) ==
  LET entry == CacheGet(api_cache, rq.cache_key)
      looked == [rq EXCEPT !.steps = Append(@, "lookup")]
      ev2 == [ev EXCEPT !.looked = TRUE]
      in_flight == \E q \in Tasks \ {p} : /\ pc[q] = "http_get"
                                           /\ req[q].cache_key = rq.cache_key
  IN /\ api_cache' = api_cache
     /\ IF IsHit(entry, now)
        THEN Return(p, looked, ev2, NoResp, DataResult(entry.data))
        ELSE Await(p, "http_get",
                   IF in_flight THEN looked
                   ELSE [looked EXCEPT !.steps = Append(@, "network")], ev2)

\* Variant of Lookup: a hit refreshes the timestamp of the entry it serves.
Lookup_Touch(p, rq, ev) ==
  LET entry == CacheGet(api_cache, rq.cache_key)
      looked == [rq EXCEPT !.steps = Append(@, "lookup")]
      ev2 == [ev EXCEPT !.looked = TRUE]
  IN IF IsHit(entry, now)
     THEN /\ api_cache' = CachePut(api_cache, rq.cache_key, now, entry.data)
          /\ Return(p, looked, ev2, NoResp, DataResult(entry.data))
     ELSE /\ api_cache' = api_cache
          /\ Await(p, "http_get",
                   [looked EXCEPT !.steps = Append(@, "network")], ev2)

\* make_opendota_request, lines 152-169: the cache lookup, and on a miss
\* the network call is issued.
Lookup(p, rq, ev) ==
  LET entry == CacheGet(api_cache, rq.cache_key)
      looked == [rq EXCEPT !.steps = Append(@, "lookup")]
      ev2 == [ev EXCEPT !.looked = TRUE]
  IN /\ api_cache' = api_cache
     /\ IF IsHit(entry, now)
        THEN Return(p, looked, ev2, NoResp, DataResult(entry.data))
        ELSE Await(p, "http_get",
                   [looked EXCEPT !.steps = Append(@, "network")], ev2)

\* apply_rate_limit, line 118, and the return into make_opendota_request.
PassGate(p, rq, ev, log) ==
  /\ request_timestamps' = Append(log, now)
  /\ Lookup(p, [rq EXCEPT !.stamps = @ + 1, !.steps = Append(@, "gate")], ev)

\* apply_rate_limit, lines 100-115.
RateLimit(p, rq, ev) ==
  LET current_time == now
      pruned == Prune(request_timestamps, current_time)
  IN IF AtLimit(pruned) /\ TimeToWait(pruned, current_time) > 0
     THEN LET time_to_wait == TimeToWait(pruned, current_time)
          IN /\ request_timestamps' = pruned
             /\ Await(p, "rate_limit_sleep",
                      [rq EXCEPT !.wake = current_time + time_to_wait,
                                 !.slept = TRUE],
                      [ev EXCEPT !.delay = time_to_wait])
             /\ calls' = Arrive(calls, now, time_to_wait)
             /\ api_cache' = api_cache
     ELSE /\ PassGate(p, rq, ev, pruned)
          /\ calls' = Arrive(calls, now, 0)

\* Variant of Dispatch: the cache looked up before the limiter, a hit
\* returning without passing it.
Dispatch_CacheFirst(p, r) ==
  LET rq == [IdleReq EXCEPT !.cache_key = CacheKey(r)]
      entry == CacheGet(api_cache, rq.cache_key)
  IN IF IsHit(entry, now)
     THEN /\ request_timestamps' = request_timestamps
          /\ calls' = Arrive(calls, now, 0)
          /\ api_cache' = api_cache
          /\ Return(p, [rq EXCEPT !.steps = <<"lookup">>],
                    [NoLast EXCEPT !.began = TRUE, !.request = r, !.looked = TRUE],
                    NoResp, DataResult(entry.data))
     ELSE RateLimit(p, rq, [NoLast EXCEPT !.began = TRUE, !.request = r])

\* make_opendota_request, lines 134-150: the limiter first, then the key.
Dispatch(p, r) ==
  RateLimit(p, [IdleReq EXCEPT !.cache_key = CacheKey(r)],
            [NoLast EXCEPT !.began = TRUE, !.request = r])

\* A call begins: startup()'s health check (line 1274) while starting up, a
\* query operation's request while serving.
Begin(p, r) ==
  /\ pc[p] = "idle"
  /\ calls.n < MaxCalls
  /\ IF p = 0 THEN phase = "startup" /\ r = HealthRequest
              ELSE phase = "serving" /\ r \in Requests
  /\ now' = now
  /\ lastSweep' = NoSweep
  /\ Dispatch(p, r)

\* asyncio.sleep(time_to_wait) is over (line 115).
Wake(p) ==
  /\ pc[p] = "rate_limit_sleep"
  /\ now >= req[p].wake
  /\ now' = now
  /\ calls' = calls
  /\ lastSweep' = NoSweep
  /\ PassGate(p, req[p], NoLast, request_timestamps)

\* Variant of Respond: a failed request gives its slot back, the newest
\* timestamp leaving the limiter's log.
Respond_Refund(p, o) ==
  /\ pc[p] = "http_get"
  /\ api_cache' = StoreResponse(api_cache, req[p].cache_key, now, o)
  /\ Return(p,
            IF IsSuccess(o) /\ IsJson(o)
            THEN [req[p] EXCEPT !.steps = Append(@, "store")] ELSE req[p],
            NoLast, o, Handle(o))
  /\ lastSweep' = NoSweep
  /\ request_timestamps' =
        IF (IsSuccess(o) /\ IsJson(o)) \/ request_timestamps = << >>
        THEN request_timestamps
        ELSE SubSeq(request_timestamps, 1, Len(request_timestamps) - 1)
  /\ UNCHANGED <<now, calls>>

\* Variant of Respond: a request that failed is sent once more before the
\* call gives up.
Respond_Retry(p, o) ==
  /\ pc[p] = "http_get"
  /\ lastSweep' = NoSweep
  /\ IF ~(IsSuccess(o) /\ IsJson(o)) /\ Len(req[p].steps) < 4
     THEN /\ req' = [req EXCEPT ![p].steps = Append(@, "network")]
          /\ last' = NoLast
          /\ UNCHANGED <<api_cache, pc, phase, janitor>>
     ELSE /\ api_cache' = StoreResponse(api_cache, req[p].cache_key, now, o)
          /\ Return(p,
                    IF IsSuccess(o) /\ IsJson(o)
                    THEN [req[p] EXCEPT !.steps = Append(@, "store")] ELSE req[p],
                    NoLast, o, Handle(o))
  /\ UNCHANGED <<now, request_timestamps, calls>>

\* client.get ends in outcome o (lines 164-195).
Respond(p, o) ==
  /\ pc[p] = "http_get"
  /\ api_cache' = StoreResponse(api_cache, req[p].cache_key, now, o)
  /\ Return(p,
            IF IsSuccess(o) /\ IsJson(o)
            THEN [req[p] EXCEPT !.steps = Append(@, "store")] ELSE req[p],
            IF IsSuccess(o) /\ IsJson(o)
            THEN [NoLast EXCEPT !.prior = CacheGet(api_cache, req[p].cache_key)]
            ELSE NoLast,
            o, Handle(o))
  /\ lastSweep' = NoSweep
  /\ UNCHANGED <<now, request_timestamps, calls>>

\* start_cache_cleanup_task, lines 1260-1262: the sleep is over, cleanup_cache
\* runs (lines 1241-1255) and the task sleeps again.
JanitorSweep ==
  /\ janitor.state = "sleeping"
  /\ now >= janitor.wake
  /\ LET expired_keys == ExpiredKeys(api_cache, now)
     IN /\ api_cache' = Sweep(api_cache, now)
        /\ lastSweep' = [at |-> now, removed |-> Cardinality(expired_keys),
                         remaining |-> Cardinality(DOMAIN api_cache')]
  /\ janitor' = [state |-> "sleeping", wake |-> now + CACHE_TTL]
  /\ last' = NoLast
  /\ UNCHANGED <<now, request_timestamps, pc, req, calls, phase>>

\* The clock advances.  startup() reaches its request without awaiting, so
\* no time passes before it.
Tick ==
  /\ now < MaxTime
  /\ ~(phase = "startup" /\ pc[0] = "idle")
  /\ now' = now + 1
  /\ last' = NoLast
  /\ lastSweep' = NoSweep
  /\ UNCHANGED <<request_timestamps, api_cache, pc, req, calls, phase, janitor>>

Next ==
  \/ \E p \in Tasks, r \in Requests \cup {HealthRequest} : Begin(p, r)
  \/ \E p \in Tasks : Wake(p)
  \/ \E p \in Tasks, o \in NetOutcomes : Respond(p, o)
  \/ JanitorSweep
  \/ Tick

\* The program as __main__ runs it.
Spec == Init /\ [][Next]_vars

\* The same program with its callers strictly one at a time: a call begins
\* only when no other call is in progress.
SeqBegin(p, r) ==
  /\ \A q \in Tasks : pc[q] = "idle"
  /\ Begin(p, r)

NextSeq ==
  \/ \E p \in Tasks, r \in Requests \cup {HealthRequest} : SeqBegin(p, r)
  \/ \E p \in Tasks : Wake(p)
  \/ \E p \in Tasks, o \in NetOutcomes : Respond(p, o)
  \/ JanitorSweep
  \/ Tick

SeqSpec == Init /\ [][NextSeq]_vars

\* start_cache_cleanup_task (lines 1258-1262) and the query operations on
\* one event loop: the cleanup task went to sleep at time 0 and the callers
\* are served while it runs.
InitLoop ==
  /\ now = 0
  /\ request_timestamps = << >>
  /\ api_cache = << >>
  /\ pc = [p \in Tasks |-> "idle"]
  /\ req = [p \in Tasks |-> IdleReq]
  /\ last = NoLast
  /\ calls = NoCalls
  /\ phase = "serving"
  /\ janitor = [state |-> "sleeping", wake |-> CACHE_TTL]
  /\ lastSweep = NoSweep

LoopBegin(p, r) ==
  /\ calls.n < MaxLoopCalls
  /\ Begin(p, r)

NextLoop ==
  \/ \E p \in Procs, r \in Requests : LoopBegin(p, r)
  \/ \E p \in Procs : Wake(p)
  \/ \E p \in Procs, o \in NetOutcomes : Respond(p, o)
  \/ JanitorSweep
  \/ Tick

LoopSpec == InitLoop /\ [][NextLoop]_vars

\* The program of Spec with the scheduling of its event loop: time passes,
\* also beyond MaxTime while a caller's sleep is not over (no call begins
\* that late), and a caller whose sleep is over is resumed.
LateTick ==
  /\ now >= MaxTime
  /\ \E p \in Tasks : pc[p] = "rate_limit_sleep" /\ now < req[p].wake
  /\ now' = now + 1
  /\ last' = NoLast
  /\ lastSweep' = NoSweep
  /\ UNCHANGED <<request_timestamps, api_cache, pc, req, calls, phase, janitor>>

LiveBegin(p, r) ==
  /\ now <= MaxTime
  /\ Begin(p, r)

\* One outcome of each way the try block ends: a payload stored, an error
\* status, an exception.
LiveOutcomes ==
  {o \in NetOutcomes : \/ o.body = "wins10"
                       \/ o.status = 429
                       \/ o.exc = "ReadTimeout"}

NextLive ==
  \/ \E p \in Tasks, r \in Requests \cup {HealthRequest} : LiveBegin(p, r)
  \/ \E p \in Tasks : Wake(p)
  \/ \E p \in Tasks, o \in LiveOutcomes : Respond(p, o)
  \/ JanitorSweep
  \/ Tick
  \/ LateTick

LiveSpec ==
  /\ Init
  /\ [][NextLive]_vars
  /\ WF_vars(Tick)
  /\ WF_vars(LateTick)
  /\ \A p \in Tasks : WF_vars(Wake(p))

\* The program of Spec with a caller that modifies, in place, the payload
\* its call has just returned.  Line 158 returns the object unpacked from
\* the entry and lines 174-176 store and return one object, without a
\* copy: the object the caller holds is the one in the entry.
Modified == "edited"

Aliased(cache, key, res) ==
  /\ res.raised = "none" /\ res.error = ""
  /\ key \in DOMAIN cache
  /\ cache[key].data = res.data

CallerModifies ==
  /\ last.returned
  /\ Aliased(api_cache, last.call.cache_key, last.result)
  /\ api_cache' = [api_cache EXCEPT ![last.call.cache_key].data = Modified]
  /\ last' = NoLast
  /\ lastSweep' = NoSweep
  /\ UNCHANGED <<now, request_timestamps, pc, req, calls, phase, janitor>>

AliasBegin(p, r) ==
  /\ calls.n < MaxLoopCalls
  /\ Begin(p, r)

NextAlias ==
  \/ \E p \in Tasks, r \in Requests \cup {HealthRequest} : AliasBegin(p, r)
  \/ \E p \in Tasks : Wake(p)
  \/ \E p \in Tasks, o \in LiveOutcomes : Respond(p, o)
  \/ JanitorSweep
  \/ Tick
  \/ CallerModifies

AliasSpec == Init /\ [][NextAlias]_vars

\* The program of Spec with an upstream that may answer 200 with a JSON
\* body holding the key "error".
BodyOutcomes ==
  LiveOutcomes \cup {[exc |-> "none", status |-> 200, body |-> ErrorBody]}

BodyBegin(p, r) ==
  /\ calls.n < MaxLoopCalls
  /\ Begin(p, r)

NextBody ==
  \/ \E p \in Tasks, r \in Requests \cup {HealthRequest} : BodyBegin(p, r)
  \/ \E p \in Tasks : Wake(p)
  \/ \E p \in Tasks, o \in BodyOutcomes : Respond(p, o)
  \/ JanitorSweep
  \/ Tick

BodySpec == Init /\ [][NextBody]_vars

\* The program of Spec with two callers whose requests differ: caller 1
\* passes a limit whose text contains "&" and "=", caller 2 passes limit and
\* offset.  The upstream answers each request with its own payload.
RequestOf(p) ==
  IF p = 1
  THEN [endpoint |-> "players/1/matches",
        params |-> << <<"limit", "5&offset=0">> >>]
  ELSE [endpoint |-> "players/1/matches",
        params |-> << <<"limit", "5">>, <<"offset", "0">> >>]

UpstreamAnswer(p) == IF p = 1 THEN "wins10" ELSE "wins11"

KeyOutcomes(p) ==
  {o \in NetOutcomes : o.body = UpstreamAnswer(p) \/ o.exc = "ReadTimeout"}

KeyBegin(p) ==
  /\ pc[p] = "idle"
  /\ calls.n < MaxLoopCalls
  /\ IF p = 0 THEN phase = "startup" ELSE phase = "serving"
  /\ now' = now
  /\ lastSweep' = NoSweep
  /\ Dispatch(p, IF p = 0 THEN HealthRequest ELSE RequestOf(p))

NextKey ==
  \/ \E p \in Tasks : KeyBegin(p)
  \/ \E p \in Tasks : Wake(p)
  \/ \E p \in Tasks : \E o \in KeyOutcomes(p) : Respond(p, o)
  \/ JanitorSweep
  \/ Tick

KeySpec == Init /\ [][NextKey]_vars

\* ------------------------------------------------------------ typing
TypeOK ==
  /\ now \in 0..MaxTime
  /\ \A i \in 1..Len(request_timestamps) : request_timestamps[i] \in 0..now
  /\ \A k \in DOMAIN api_cache :
        api_cache[k].timestamp \in 0..now /\ api_cache[k].data \in Payloads
  /\ pc \in [Tasks -> {"idle", "rate_limit_sleep", "http_get"}]
  /\ calls.n \in 0..MaxCalls
  /\ phase \in {"startup", "serving"}
  /\ janitor.state \in {"created", "sleeping", "cancelled"}

\* ============================================================== claims
\* The step leading to this state returned a payload served from the cache.
ServedFromCache == last.returned /\ last.resp = NoResp

\* The timestamps of `ts` inside the trailing window that ends at T.
InWindow(ts, T) == {i \in 1..Len(ts) : ts[i] <= T /\ T - ts[i] < WINDOW}

\* C1: a call served from a fresh cache entry costs nothing at the limiter:
\* it appended no timestamp to the limiter log and was not suspended.
C1_CacheHitCostsNoRateLimit ==
  ServedFromCache => last.call.stamps = 0 /\ ~last.call.slept

\* C2: with concurrent callers, in every reachable state every trailing
\* window of WINDOW holds at most MAX_REQUESTS_PER_MINUTE recorded timestamps.
C2_QuotaHeldUnderConcurrency ==
  \A T \in 0..now :
    Cardinality(InWindow(request_timestamps, T)) <= MAX_REQUESTS_PER_MINUTE

\* C3: with callers strictly one at a time, every trailing window holds at
\* most the quota of recorded timestamps, and a call that the limiter
\* suspended is recorded only once the oldest timestamp it found has left
\* the window.
C3_SequentialQuota ==
  /\ \A T \in 0..now :
       Cardinality(InWindow(request_timestamps, T)) <= MAX_REQUESTS_PER_MINUTE
  /\ (last.call.slept /\ last.call.stamps = 1 /\ last.looked)
       => /\ now - SeqMin(request_timestamps) >= WINDOW
          /\ request_timestamps[Len(request_timestamps)] = now

\* C3 witness: a call found the quota used up, slept, and was recorded; the
\* log then holds quota + 1 timestamps, the oldest outside the window.
C3_Witness ==
  /\ last.call.slept /\ last.call.stamps = 1 /\ last.looked
  /\ Len(request_timestamps) = MAX_REQUESTS_PER_MINUTE + 1
  /\ Cardinality(InWindow(request_timestamps, now)) = MAX_REQUESTS_PER_MINUTE

\* C4: for a sequential caller, the first quota calls are not delayed and
\* the (quota + 1)-th, arriving while the first is still in the window, is
\* suspended for WINDOW minus the time elapsed since the first, plus the
\* buffer; and calls whose arrivals are more than WINDOW / quota apart are
\* never suspended.
C4_SequentialDelays ==
  /\ (last.began /\ calls.n <= MAX_REQUESTS_PER_MINUTE) => last.delay = 0
  /\ (last.began /\ calls.n = MAX_REQUESTS_PER_MINUTE + 1
        /\ now - calls.first < WINDOW)
       => /\ last.delay = WINDOW - (now - calls.first) + BUFFER
          /\ pc[last.task] = "rate_limit_sleep"
          /\ req[last.task].wake = now + last.delay
  /\ calls.spaced => ~calls.delayed

\* C4 witness: the (quota + 1)-th call arrives some time after the first,
\* which is still in the window, and is suspended.
C4_Witness ==
  /\ last.began /\ calls.n = MAX_REQUESTS_PER_MINUTE + 1
  /\ now > calls.first /\ now - calls.first < WINDOW
  /\ last.delay > 0

\* A run of quota + 1 calls, all spaced more than WINDOW / quota apart.
C4_SpacedRun == calls.n = MAX_REQUESTS_PER_MINUTE + 1 /\ calls.spaced

\* C5: a call is served from the cache, without a network call, exactly when
\* an entry for its key exists and now - storedAt < CACHE_TTL at the lookup;
\* otherwise the network call is made, whether or not the entry is still
\* physically in the cache.
C5_ServedIffFresh ==
  last.looked =>
    LET k == last.call.cache_key
    IN /\ ServedFromCache <=>
            (k \in DOMAIN api_cache /\ now - api_cache[k].timestamp < CACHE_TTL)
       /\ ServedFromCache => last.result = DataResult(api_cache[k].data)
       /\ ~ServedFromCache => ~last.returned /\ pc[last.task] = "http_get"

\* C5 witness: an entry of age exactly CACHE_TTL is still in the cache, and
\* the lookup treats it as absent.
C5_Witness ==
  /\ last.looked /\ ~last.returned
  /\ last.call.cache_key \in DOMAIN api_cache
  /\ now - api_cache[last.call.cache_key].timestamp = CACHE_TTL

\* The network call ended in a failure: an exception, a non-2xx status or a
\* body that is not JSON.
FailedFetch(o) ==
  o # NoResp /\ (o.exc # "none" \/ o.status \notin 200..299 \/ o.body \notin Payloads)

\* C6: a step in which a call's network request ends in a failure leaves
\* the cache map exactly as it was: no entry created, a stale entry kept.
C6_FailedFetchNotCached ==
  [][(last'.returned /\ FailedFetch(last'.resp)) => api_cache' = api_cache]_vars

\* C6 witness: a fetch for a key whose stale entry is in the cache failed.
C6_Witness ==
  /\ last.returned /\ FailedFetch(last.resp)
  /\ last.call.cache_key \in DOMAIN api_cache
  /\ now - api_cache[last.call.cache_key].timestamp >= CACHE_TTL

\* C7: the janitor task is alive for as long as the process serves query
\* operations.
C7_JanitorRunsWhileServing ==
  phase = "serving" => janitor.state = "sleeping"

\* C8: one sweep at time now removes exactly the entries with
\* now - storedAt >= CACHE_TTL, leaves the others unchanged and retrievable
\* as cache hits, and logs the number removed and the number remaining.
C8_SweepExact ==
  [][lastSweep' # NoSweep =>
       LET stale == {k \in DOMAIN api_cache : now - api_cache[k].timestamp >= CACHE_TTL}
       IN /\ DOMAIN api_cache' = DOMAIN api_cache \ stale
          /\ \A k \in DOMAIN api_cache' :
               /\ api_cache'[k] = api_cache[k]
               /\ IsHit(CacheGet(api_cache', k), now')
          /\ lastSweep'.removed = Cardinality(stale)
          /\ lastSweep'.remaining = Cardinality(DOMAIN api_cache')
          /\ lastSweep'.removed + lastSweep'.remaining
               = Cardinality(DOMAIN api_cache)]_vars

\* C8 witness: a sweep removed one entry and left another.
C8_Witness == lastSweep.removed >= 1 /\ lastSweep.remaining >= 1

\* C9: every call passes the limiter gate, then looks the cache up, then
\* (on a miss only) makes the network call, then (on success only) stores,
\* then returns; a task suspended at the network call has passed the gate
\* and looked up, a task sleeping in the limiter has done neither.
C9_StepOrder ==
  /\ \A p \in Tasks :
       /\ pc[p] = "rate_limit_sleep" => req[p].steps = << >> /\ req[p].stamps = 0
       /\ pc[p] = "http_get"
            => req[p].steps = <<"gate", "lookup", "network">> /\ req[p].stamps = 1
  /\ last.returned =>
       /\ last.call.stamps = 1
       /\ IF ServedFromCache
          THEN last.call.steps = <<"gate", "lookup">>
          ELSE IF FailedFetch(last.resp)
          THEN last.call.steps = <<"gate", "lookup", "network">>
          ELSE /\ last.call.steps = <<"gate", "lookup", "network", "store">>
               /\ api_cache[last.call.cache_key] = Entry(now, last.resp.body)

\* C9 witness: a call that the limiter suspended, that missed the cache,
\* fetched and stored.
C9_Witness ==
  /\ last.returned /\ last.call.slept
  /\ last.call.steps = <<"gate", "lookup", "network", "store">>

\* C10: a non-success HTTP status is classified by the status alone: 429 is
\* RateLimited ("Rate limit exceeded"), 404 is NotFound ("Not found"), a
\* status >= 500 is UpstreamServerError ("OpenDota API server error"), and
\* every other one is the error that carries the status ("HTTP error").
C10_StatusClassification ==
  (last.returned /\ last.resp.exc = "none" /\ last.resp.status \notin 200..299)
    => LET s == last.resp.status
           e == last.result.error
       IN /\ e \in {"Rate limit exceeded", "Not found",
                    "OpenDota API server error", "HTTP error"}
          /\ e = "Rate limit exceeded" <=> s = 429
          /\ e = "Not found" <=> s = 404
          /\ e = "OpenDota API server error" <=> s >= 500
          /\ e = "HTTP error" <=> (s # 429 /\ s # 404 /\ s < 500)
          /\ e = "HTTP error" => last.result.status = s
          /\ last.result.data = ""

\* C10 witness: an upstream 400 was returned as the error carrying 400.
C10_Witness ==
  /\ last.returned /\ last.resp.status = 400
  /\ last.result = ErrorResult("HTTP error", 400)

\* The error kinds of the design (section 4.3) and the message by which
\* the code tells each.
Kind(res) ==
  IF res.raised # "none" THEN "raised"
  ELSE IF res.error = "" THEN "payload"
  ELSE IF res.error = "Rate limit exceeded" THEN "RateLimited"
  ELSE IF res.error = "Not found" THEN "NotFound"
  ELSE IF res.error = "OpenDota API server error" THEN "UpstreamServerError"
  ELSE IF res.error = "HTTP error" THEN "TransportError"
  ELSE "Unknown"

\* A failure that carries no HTTP status: no connection, a timeout, or a
\* success response whose body is not JSON.
NoStatusFailure(o) ==
  o.exc \in TransportExcs \/ (o.exc = "none" /\ o.status \in 200..299 /\ o.body \notin Payloads)

\* A failure of the upstream or of the transport: any non-success status,
\* or a failure without a status.
UpstreamFailure(o) ==
  NoStatusFailure(o) \/ (o.exc = "none" /\ o.status \notin 200..299 /\ o # NoResp)

\* C11: a failure without an HTTP status is classified TransportError, not
\* the Unknown kind of unanticipated failures.
C11_NoStatusIsTransportError ==
  (last.returned /\ NoStatusFailure(last.resp)) => Kind(last.result) = "TransportError"

\* C12: for every upstream or transport failure the call ends normally and
\* hands its caller a classified error; it does not raise.
C12_FailureReturnsError ==
  (last.returned /\ UpstreamFailure(last.resp))
    => /\ last.result.raised = "none"
       /\ Kind(last.result) \in {"RateLimited", "NotFound", "UpstreamServerError",
                                 "TransportError", "Unknown"}
       /\ pc[last.task] = "idle"

\* C12 witness: the request timed out and the call returned an error value.
C12_Witness ==
  /\ last.returned /\ last.resp.exc = "ReadTimeout"
  /\ last.result.raised = "none" /\ last.result.error # ""

\* C13: a programming error raised while the request is performed or the
\* response handled leaves the call as an exception; it is not turned into
\* an error result.
C13_InternalFaultPropagates ==
  (last.returned /\ last.resp.exc = InternalFault)
    => last.result.raised = InternalFault /\ last.result.error = ""

\* C14: when a call's network request times out or fails in any other
\* way, the limiter's log is left as it was: the timestamp recorded for the
\* call is neither removed nor altered.
C14_FailureKeepsTimestamp ==
  [][(last'.returned /\ FailedFetch(last'.resp))
       => request_timestamps' = request_timestamps]_vars

\* C14 witness: a call that recorded its timestamp timed out, and the log
\* still holds a timestamp.
C14_Witness ==
  /\ last.returned /\ last.resp.exc = "ReadTimeout"
  /\ last.call.stamps = 1
  /\ request_timestamps # << >>

\* The number of times step x occurs in a call's sequence of steps.
CountOf(steps, x) == Cardinality({i \in DOMAIN steps : steps[i] = x})

\* C15: a call, in progress or returned, has sent at most one network
\* request, and a returned call has appended exactly one timestamp,
\* whatever the request ended in.
C15_NoRetry ==
  /\ \A p \in Tasks : /\ CountOf(req[p].steps, "network") <= 1
                      /\ req[p].stamps <= 1
  /\ last.returned => /\ CountOf(last.call.steps, "network") <= 1
                      /\ last.call.stamps = 1

\* C15 witness: a call whose request was answered 503 returned after one
\* network request and one timestamp.
C15_Witness ==
  /\ last.returned /\ last.resp.status = 503
  /\ CountOf(last.call.steps, "network") = 1
  /\ last.call.stamps = 1

\* The step leading to this state returned a payload fetched from the
\* network.
Fetched == last.returned /\ last.resp # NoResp /\ ~FailedFetch(last.resp)

\* C16: the step in which a call's request succeeds with a parseable body
\* leaves the cache mapping the call's key to (the time of the store, the
\* payload fetched), whatever the key mapped to before, and every other
\* key as it was.
C16_StoreOverwrites ==
  [][Fetched' =>
       api_cache' = [k \in DOMAIN api_cache \cup {last'.call.cache_key} |->
                       IF k = last'.call.cache_key
                       THEN Entry(now', last'.resp.body)
                       ELSE api_cache[k]]]_vars

\* C16 witness: a fetch replaced an entry that was still fresh and held
\* another payload, while the cache holds another key too.
C16_Witness ==
  /\ Fetched
  /\ last.prior # NoEntry /\ Fresh(last.prior, now)
  /\ last.prior.data # last.resp.body
  /\ api_cache[last.call.cache_key] = Entry(now, last.resp.body)
  /\ Cardinality(DOMAIN api_cache) >= 2

\* A fetch replaced an entry that had gone stale.
C16_StaleReplaced ==
  /\ Fetched
  /\ last.prior # NoEntry /\ ~Fresh(last.prior, now)
  /\ api_cache[last.call.cache_key] = Entry(now, last.resp.body)

\* C17: the step in which a call is served from the cache changes no
\* entry, and the entry it serves is younger than CACHE_TTL: reads do not
\* extend an entry's life.
C17_HitLeavesCache ==
  [][ServedFromCache' =>
       /\ api_cache' = api_cache
       /\ now' < api_cache[last'.call.cache_key].timestamp + CACHE_TTL]_vars

\* C17 witness: a call was served an entry stored at an earlier time, which
\* still carries that time.
C17_Witness ==
  /\ ServedFromCache
  /\ api_cache[last.call.cache_key].timestamp < now
  /\ api_cache[last.call.cache_key].data = last.result.data

\* The parameter mappings of at most MaxParams names, in every order of
\* insertion, the endpoints they go to, and the two configurations of
\* API_PARAMS (line 44).
MaxParams == 3
ParamValues == {"0", "5"}
ParamItems == {<<n, v>> : n \in {"api_key", "limit", "offset"}, v \in ParamValues}
ParamDicts ==
  UNION { {d \in [1..n -> ParamItems] :
             \A i, j \in 1..n : i # j => d[i][1] # d[j][1]} : n \in 0..MaxParams }
KeyEndpoints == {"heroes", "players/1/matches"}
KeyDefaults == {<< >>, << <<"api_key", "secret">> >>}

\* Two mappings hold the same name/value pairs.
SamePairs(a, b) == {a[i] : i \in DOMAIN a} = {b[i] : i \in DOMAIN b}

\* get_cache_key and the dispatcher's key take the same value on every two
\* mappings with the same pairs.
KeysOrderIndependent ==
  \A e \in KeyEndpoints, a \in ParamDicts, b \in ParamDicts :
    SamePairs(a, b) =>
      /\ get_cache_key(e, a) = get_cache_key(e, b)
      /\ \A dflt \in KeyDefaults :
           MergedKey(dflt, [endpoint |-> e, params |-> a])
             = MergedKey(dflt, [endpoint |-> e, params |-> b])

\* C18: the cache key does not depend on the order in which the parameters
\* were inserted: get_cache_key and the dispatcher build one key for
\* mappings with the same pairs, a call uses the key of every reordering of
\* its parameters, and a call served from the cache was served the entry
\* under that key.
C18_KeyOrderIndependent ==
  /\ KeysOrderIndependent
  /\ last.began =>
       \A r \in Requests :
         (r.endpoint = last.request.endpoint
            /\ SamePairs(r.params, last.request.params))
           => /\ last.call.cache_key = CacheKey(r)
              /\ ServedFromCache
                   => /\ CacheKey(r) \in DOMAIN api_cache
                      /\ last.result.data = api_cache[CacheKey(r)].data

\* C18 witness: a call whose parameters were inserted in the order offset,
\* limit is served from the cache under the key that lists limit first.
C18_Witness ==
  /\ ServedFromCache /\ last.began
  /\ last.request.params = << <<"offset", "0">>, <<"limit", "5">> >>
  /\ last.call.cache_key = "players/1/matches?limit=5&offset=0"

\* C19: the limiter only delays.  A call is suspended for at most
\* WINDOW + BUFFER and has not recorded a timestamp while it sleeps; the
\* step that ends its sleep appends the call's timestamp at the current
\* time and does not suspend it in the limiter again; and with concurrent
\* callers every sleeping caller gets past the limiter.
C19_LimiterOnlyDelays ==
  /\ [](last.began => last.delay <= WINDOW + BUFFER)
  /\ [](\A p \in Tasks : pc[p] = "rate_limit_sleep"
           => req[p].wake - now <= WINDOW + BUFFER /\ req[p].stamps = 0)
  /\ [][\A p \in Tasks :
          (pc[p] = "rate_limit_sleep" /\ req'[p] # req[p])
            => /\ pc'[p] # "rate_limit_sleep"
               /\ request_timestamps' = Append(request_timestamps, now)
               /\ last'.call.stamps = 1 /\ last'.task = p]_vars
  /\ \A p \in Tasks : (pc[p] = "rate_limit_sleep") ~> (pc[p] # "rate_limit_sleep")

\* C19 witness: a call that slept in the limiter has been resumed and has
\* recorded its timestamp, while the other caller is still asleep.
C19_Witness ==
  /\ last.call.slept /\ last.looked /\ last.call.stamps = 1
  /\ \E p \in Tasks : p # last.task /\ pc[p] = "rate_limit_sleep"

\* C20: calls are not coalesced and the cache converges.  Every call that
\* misses sends a request of its own, also while another task is fetching
\* the same key; when a fetch succeeds the key's entry is the payload and
\* the store time of that fetch, the latest store; and a call that looks up
\* a key whose entry is fresh is served that entry.
C20_NoSingleFlightConverges ==
  /\ \A p \in Tasks :
       pc[p] = "http_get" => CountOf(req[p].steps, "network") = 1
  /\ (last.looked /\ ~last.returned) => pc[last.task] = "http_get"
  /\ Fetched =>
       CacheGet(api_cache, last.call.cache_key) = Entry(now, last.resp.body)
  /\ (last.looked /\ IsHit(CacheGet(api_cache, last.call.cache_key), now))
       => /\ ServedFromCache
          /\ last.result.data = api_cache[last.call.cache_key].data

\* C20 witness: of two calls that missed the same key and fetched it
\* concurrently, the second to finish stores its payload over the entry the
\* first stored at an earlier time with another payload.
C20_Witness ==
  /\ Fetched
  /\ last.prior # NoEntry /\ Fresh(last.prior, now)
  /\ last.prior.timestamp < now
  /\ last.prior.data = "wins10" /\ last.resp.body = "wins11"
  /\ api_cache[last.call.cache_key] = Entry(now, "wins11")

\* Two tasks are fetching the same key at once.
C20_BothInFlight ==
  \E p, q \in Tasks :
    /\ p # q /\ pc[p] = "http_get" /\ pc[q] = "http_get"
    /\ req[p].cache_key = req[q].cache_key

\* Every entry is a whole (timestamp, data) pair: a payload and the time,
\* not later than now, of its store.
EntriesComplete ==
  \A k \in DOMAIN api_cache :
    /\ DOMAIN api_cache[k] = {"timestamp", "data"}
    /\ api_cache[k].timestamp \in 0..now
    /\ api_cache[k].data \in Payloads

\* C21: with callers and the cleanup task interleaved at their awaits,
\* lookup, store and sweep are atomic.  Every entry is a whole pair with a
\* timestamp not later than now; the entry of a key changes only in the
\* step in which a fetch for that key succeeds, and then to that fetch's
\* (time, payload), whatever sweeps ran since the call's miss; a key leaves
\* the cache only in a sweep, which runs alone and takes expired keys only.
C21_CacheOperationsAtomic ==
  /\ []EntriesComplete
  /\ [][\A k \in DOMAIN api_cache \cup DOMAIN api_cache' :
          CacheGet(api_cache', k) # CacheGet(api_cache, k)
            => \/ /\ Fetched' /\ last'.call.cache_key = k
                  /\ api_cache'[k] = Entry(now', last'.resp.body)
                  /\ lastSweep' = NoSweep
               \/ /\ lastSweep'.at = now' /\ last' = NoLast
                  /\ k \notin DOMAIN api_cache'
                  /\ Expired(api_cache[k], now)
                  /\ pc' = pc /\ req' = req]_vars

\* C21 witness: a sweep has just removed an entry while a caller that
\* missed is waiting for its response, and the cache no longer holds the
\* caller's key.
C21_Witness ==
  /\ lastSweep.at = now /\ lastSweep.removed >= 1
  /\ \E p \in Procs : /\ pc[p] = "http_get"
                      /\ req[p].cache_key \notin DOMAIN api_cache

\* A fetch stored its payload after a sweep had emptied the cache.
C21_StoreAfterSweep ==
  /\ Fetched /\ last.prior = NoEntry
  /\ janitor.wake > CACHE_TTL
  /\ api_cache[last.call.cache_key] = Entry(now, last.resp.body)

\* C22: callers hold no reference into the cache: whatever a caller does
\* to a payload it was handed, a call served from the cache returns a
\* payload as it was fetched from upstream.
C22_HitsUnaffectedByCallers ==
  ServedFromCache => last.result.data \in Payloads

\* For every entry and every time not before its store, up to an age
\* beyond CACHE_TTL, the sweep's test holds exactly when the lookup's fails.
TestsAgree ==
  \A t0 \in 0..MaxTime, age \in 0..(CACHE_TTL + MaxTime) :
    \A d \in Payloads :
      Expired(Entry(t0, d), t0 + age) <=> ~IsHit(Entry(t0, d), t0 + age)

\* C23: the lookup and the sweep agree on every entry at every time, the
\* age CACHE_TTL included: an entry is one the sweep removes exactly when a
\* lookup does not serve it; what a sweep leaves would be served, and what a
\* lookup has just passed over is what a sweep at that time takes.
C23_FreshnessTestsAgree ==
  /\ TestsAgree
  /\ \A k \in DOMAIN api_cache :
       Expired(api_cache[k], now) <=> ~IsHit(api_cache[k], now)
  /\ lastSweep.at = now =>
       \A k \in DOMAIN api_cache : IsHit(api_cache[k], now)
  /\ (last.looked /\ ~last.returned /\ last.call.cache_key \in DOMAIN api_cache)
       => last.call.cache_key \in ExpiredKeys(api_cache, now)
  /\ ServedFromCache => last.call.cache_key \notin ExpiredKeys(api_cache, now)

\* C23 witness: at the time of a sweep a lookup has passed over an entry of
\* age exactly CACHE_TTL, which the sweep due now removes.
C23_Witness ==
  /\ last.looked /\ ~last.returned
  /\ last.call.cache_key \in DOMAIN api_cache
  /\ now - api_cache[last.call.cache_key].timestamp = CACHE_TTL
  /\ janitor.state = "sleeping" /\ now >= janitor.wake
  /\ last.call.cache_key \in ExpiredKeys(api_cache, now)

\* The callers' failure test (line 422): "error" in data.
CallerSeesFailure(res) == res.error # "" \/ res.data = ErrorBody

\* C24: nothing the callers take for a failure is in the cache or served
\* from it: no entry's payload has the key "error", whatever body a
\* successful response carried.
C24_NoFailureCached ==
  /\ \A k \in DOMAIN api_cache : api_cache[k].data # ErrorBody
  /\ ServedFromCache => ~CallerSeesFailure(last.result)

\* The logs of at most MaxLog timestamps, none later than the time t at
\* which apply_rate_limit reads the clock.
MaxLog == 3
LogsUpTo(t) == UNION { [1..n -> 0..t] : n \in 0..MaxLog }

\* On every log found at quota after pruning the computed wait exceeds
\* the buffer.
WaitPositiveAtQuota ==
  \A t \in 0..MaxTime :
    \A ts \in LogsUpTo(t) :
      AtLimit(Prune(ts, t)) => TimeToWait(Prune(ts, t), t) > BUFFER

\* C25: a caller that finds the pruned log at quota always waits, and for
\* more than the buffer: a call that was suspended was told to wait more
\* than BUFFER, and a call that passed without suspension had found fewer
\* than quota timestamps (the log is what it found plus its own).
C25_AtQuotaAlwaysWaits ==
  /\ WaitPositiveAtQuota
  /\ (last.began /\ last.call.slept) => last.delay > BUFFER
  /\ (last.began /\ ~last.call.slept)
       => /\ last.delay = 0
          /\ Len(request_timestamps) - 1 < MAX_REQUESTS_PER_MINUTE
  /\ \A i \in 1..Len(request_timestamps) : request_timestamps[i] <= now

\* C25 witness: a caller found the log at quota with its oldest timestamp
\* one unit short of leaving the window, and was suspended for BUFFER + 1.
C25_Witness ==
  /\ last.began /\ last.call.slept
  /\ last.delay = BUFFER + 1
  /\ pc[last.task] = "rate_limit_sleep"
  /\ AtLimit(request_timestamps)

\* The request of a call as the upstream sees it: the endpoint and the set
\* of merged name/value pairs.
Sent(r) == [endpoint |-> r.endpoint,
            pairs |-> {RequestParams(r)[i] : i \in DOMAIN RequestParams(r)}]

\* Requests that differ are given keys that differ, by the dispatcher and
\* by get_cache_key.
KeysSeparate ==
  \A p, q \in Procs :
    Sent(RequestOf(p)) # Sent(RequestOf(q))
      => /\ CacheKey(RequestOf(p)) # CacheKey(RequestOf(q))
         /\ get_cache_key(RequestOf(p).endpoint, RequestOf(p).params)
              # get_cache_key(RequestOf(q).endpoint, RequestOf(q).params)

\* C26: the key separates requests: a call served from the cache is served
\* the payload the upstream gives for its own request, never one fetched
\* for another endpoint or other parameter values, also when a value
\* contains "&" or "=".
C26_ServedOwnRequest ==
  (ServedFromCache /\ last.task \in Procs)
    => last.result.data = UpstreamAnswer(last.task)

====
